---- MODULE Spec2Model ----
(***************************************************************************)
(* Model of src/athena.py: the Athena session (query / repair_table with   *)
(* its polling loop) and the AthenaResult object (result, to_string,       *)
(* to_s3) together with the remote Athena service and the S3 store.        *)
(*                                                                         *)
(* Data representation                                                     *)
(*   text   : a Python string, a sequence of one-character strings         *)
(*   cell   : a Datum dict; <<>> has no 'VarCharValue' key, <<t>> has      *)
(*            'VarCharValue' = t                                           *)
(*   row    : row['Data'], a sequence of cells                             *)
(*   page   : page['ResultSet']['Rows'], a sequence of rows                *)
(*   None   : <<>> ; a present value x of an optional field is <<x>>       *)
(***************************************************************************)
EXTENDS Naturals, Sequences, FiniteSets, TLC

VARIABLES pc, op, svc, svcPages, events,
          results, results_str,
          last, result_ret, string_ret, nOps, s3_body, issued

vars == <<pc, op, svc, svcPages, events, results, results_str,
          last, result_ret, string_ret, nOps, s3_body, issued>>

(* ---------------- bounds of the model ---------------- *)
MaxPages == 2
MaxRows == 3
MaxCells == 2
MaxFails == 2
MaxOps == 2
MaxStrRows == 2
MaxBodyRows == 1

(* ---------------- program constants ---------------- *)
InitialDelay == 3
BackoffDelay == 10

(* ---------------- optional values ---------------- *)
None == <<>>

Some(x) == <<x>>

IsNone(o) == Len(o) = 0

Val(o) == o[1]

(* ---------------- Python str / list primitives ---------------- *)
TAB == "\t"

NL == "\n"

RECURSIVE Concat(_)
Concat(ss) == IF Len(ss) = 0 THEN <<>> ELSE Head(ss) \o Concat(Tail(ss))

RECURSIVE Join(_, _)
Join(sep, ss) ==
    IF Len(ss) = 0 THEN <<>>
    ELSE IF Len(ss) = 1 THEN ss[1]
    ELSE ss[1] \o sep \o Join(sep, Tail(ss))

RECURSIVE Split(_, _)
Split(s, c) ==
    IF \A i \in 1..Len(s) : s[i] # c THEN <<s>>
    ELSE LET k == CHOOSE i \in 1..Len(s) :
                      s[i] = c /\ \A j \in 1..(i - 1) : s[j] # c
         IN  <<SubSeq(s, 1, k - 1)>> \o Split(SubSeq(s, k + 1, Len(s)), c)

Pop0(l) == IF Len(l) > 0 THEN Tail(l) ELSE l

(* ---------------- the service's answers (inputs of the model) -------- *)
SeqsUpTo(S, n) == UNION {[1..k -> S] : k \in 0..n}

Cuts(n, k) == {c \in [1..(k - 1) -> 0..n] :
                  \A i \in 1..(k - 2) : c[i] <= c[i + 1]}

PagesOf(rows, c, k) ==
    [i \in 1..k |-> SubSeq(rows,
                           (IF i = 1 THEN 0 ELSE c[i - 1]) + 1,
                           IF i = k THEN Len(rows) ELSE c[i])]

\* the service cuts its rows into k pages at the cut points c; Answers(RS, pages)
\* holds exactly for the answers the service can give for the row sequences RS:
\* zero pages, or the rows of one of them cut into 1..MaxPages pages
Answers(RS, pages) ==
    \/ pages = <<>>
    \/ \E r \in RS, k \in 1..MaxPages :
          \E c \in Cuts(Len(r), k) : pages = PagesOf(r, c, k)

\* a result set has one Datum per column in every row; W are the column
\* counts, at least one
RowSeqs(C, W, n) == UNION {SeqsUpTo([1..w -> C], n) : w \in W}

NoValue == <<>>

Datum(t) == <<t>>

\* cells of the session specification: a NULL cell and the value 'a'
Cells == {NoValue, Datum(<<"a">>)}

\* cells of the to_string specification: '', 'a', tab and newline
StrCells == {NoValue, Datum(<<"a">>), Datum(<<TAB>>), Datum(<<NL>>)}

Delims == {<<TAB>>, <<NL>>}

HeaderRow(w) == [i \in 1..w |-> Datum(<<"a">>)]

\* the rows of the result sets explored with the whole session: two columns,
\* one of them NULL
PollRows == {<<Datum(<<"a">>), NoValue>>, <<NoValue, Datum(<<"a">>)>>}

\* the result sets explored with the whole session: no row at all, or the
\* header row (the column names) and up to MaxBodyRows rows of PollRows
PollRowSeqs ==
    {<<>>} \cup {<<HeaderRow(2)>> \o b : b \in SeqsUpTo(PollRows, MaxBodyRows)}

AllRowSeqs == RowSeqs(Cells, 1..MaxCells, MaxRows)

\* the answers explored for to_string: zero pages, or one page holding a
\* header row and up to MaxStrRows rows of StrCells
StrAnswers(pages) ==
    \/ pages = <<>>
    \/ \E w \in 1..MaxCells :
          \E body \in SeqsUpTo([1..w -> StrCells], MaxStrRows) :
             pages = <<(<<HeaderRow(w)>> \o body)>>

(* ---------------- AthenaResult.result, lines 83-97 ---------------- *)
\* e.get('VarCharValue', u'')
Get(e) == IF Len(e) = 0 THEN <<>> ELSE e[1]

HasValue(e) == Len(e) > 0

\* variant: a cell without a value is skipped, as _format_results
\* (lines 123-128) does
DecodeRow_omitMissing(d) ==
    [i \in 1..Len(SelectSeq(d, HasValue)) |-> Get(SelectSeq(d, HasValue)[i])]

\* lines 88-92: one datum per cell of d
DecodeRow(d) == [i \in 1..Len(d) |-> Get(d[i])]

\* variant: the first row of every page is taken for a header
Rows_headerPerPage(pages) ==
    Concat([p \in 1..Len(pages) |->
               IF p = 1 THEN pages[p] ELSE Pop0(pages[p])])

\* lines 83-85: rows of all pages, page order then intra-page order
Rows(pages) == Concat(pages)

\* lines 87-92
FinalData(pages) == [i \in 1..Len(Rows(pages)) |-> DecodeRow(Rows(pages)[i])]

\* variant: the header row is popped only for header=False
ResultValue_honoursHeader(pages, header) ==
    IF Len(pages) = 0 THEN <<>>
    ELSE IF header THEN FinalData(pages) ELSE Pop0(FinalData(pages))

\* lines 80-81 and 93-97: the value result(header) returns for the pages the
\* paginator delivered; header is never read by the code
ResultValue(pages, header) ==
    IF Len(pages) = 0 THEN <<>> ELSE Pop0(FinalData(pages))

\* variant: every cell is followed by the delimiter
Lines_trailingDelim(rows, delim) ==
    [i \in 1..Len(rows) |-> Join(delim, rows[i]) \o delim]

\* variant: no newline after the last line
AsString_noTrailingNewline(rows, delim) ==
    Join(<<NL>>, [i \in 1..Len(rows) |-> Join(delim, rows[i])])

\* lines 103-104
Lines(rows, delim) == [i \in 1..Len(rows) |-> Join(delim, rows[i])]

AsString(rows, delim) == Join(<<NL>>, Lines(rows, delim)) \o <<NL>>

(* ---------------- events of Athena.query, lines 39-51 ---------------- *)
Ev(name) == [e |-> name, s |-> 0]

Sleep(n) == [e |-> "sleep", s |-> n]

NumFails == Cardinality({i \in 1..Len(events) : events[i].e = "check_fail"})

NoCall == [method |-> "none", header |-> TRUE, delim |-> <<TAB>>,
           calls |-> <<>>, raised |-> FALSE, body |-> None]

\* paginations started, paginations that delivered their last page, and
\* result() calls made by the caller, on the AthenaResult
NoneIssued == [paginate |-> 0, completed |-> 0, result |-> 0, put |-> 0]

Methods == {"query", "repair_table"}

\* what the service does during lines 74-78: every call answers ("ok"), the
\* paginator delivers no page ("no_pages"), the existence check of line 74
\* raises ("check_fail"), or the request for page `at` raises ("page_fail")
Ok == [kind |-> "ok", at |-> 0]

Outcomes ==
    {Ok, [kind |-> "no_pages", at |-> 0], [kind |-> "check_fail", at |-> 0]}
    \cup {[kind |-> "page_fail", at |-> k] : k \in 1..MaxPages}

\* the AthenaResult that query() returned; repair_table() discards it (line 56)
HasResult == pc = "returned" /\ op = "query"

Init ==
    /\ pc = "start"
    /\ op = "none"
    /\ svc = "none"
    /\ svcPages = <<>>
    /\ events = <<>>
    /\ results = None
    /\ results_str = None
    /\ last = NoCall
    /\ result_ret = None
    /\ string_ret = None
    /\ nOps = 0
    /\ s3_body = None
    /\ issued = NoneIssued

(* ---------------- Athena.query / Athena.repair_table ---------------- *)
\* variant: a rejected submission is swallowed and polling starts
start_query_execution_swallowed(m, accepted) ==
    /\ pc = "start"
    /\ op' = m
    /\ pc' = "sleep3"
    /\ svc' = IF accepted THEN "running" ELSE svc
    /\ events' = <<Ev(IF accepted THEN "submit" ELSE "submit_rejected")>>
    /\ UNCHANGED <<svcPages, results, results_str, last, result_ret,
                   string_ret, nOps, s3_body, issued>>

\* lines 39-43 (and 55-56): the submission; a rejection propagates
start_query_execution(m, accepted) ==
    /\ pc = "start"
    /\ op' = m
    /\ IF accepted
       THEN /\ pc' = "sleep3"
            /\ svc' = "running"
            /\ events' = <<Ev("submit")>>
       ELSE /\ pc' = "raised"
            /\ svc' = svc
            /\ events' = <<Ev("submit_rejected")>>
    /\ UNCHANGED <<svcPages, results, results_str, last, result_ret,
                   string_ret, nOps, s3_body, issued>>

\* line 44
sleep_initial ==
    /\ pc = "sleep3"
    /\ pc' = "check"
    /\ events' = Append(events, Sleep(InitialDelay))
    /\ UNCHANGED <<op, svc, svcPages, results, results_str, last, result_ret,
                   string_ret, nOps, s3_body, issued>>

\* the remote execution finishes and its result set is fixed
service_succeeds(RS) ==
    /\ svc = "running"
    /\ svc' = "succeeded"
    /\ Answers(RS, svcPages')
    /\ UNCHANGED <<pc, op, events, results, results_str, last, result_ret,
                   string_ret, nOps, s3_body, issued>>

\* the remote execution ends FAILED or CANCELLED
service_fails ==
    /\ svc = "running"
    /\ svc' = "failed"
    /\ UNCHANGED <<pc, op, svcPages, events, results, results_str, last,
                   result_ret, string_ret, nOps, s3_body, issued>>

\* variant: the exception of a failed readiness check reaches the caller
PollAfter_propagates(ok) ==
    IF ok
    THEN /\ pc' = "construct"
         /\ events' = Append(events, Ev("check_ok"))
    ELSE /\ pc' = "raised"
         /\ events' = IF NumFails < MaxFails
                      THEN Append(events, Ev("check_fail"))
                      ELSE events

\* variant: the loop gives up after MaxFails failed readiness checks
PollAfter_maxRetries(ok) ==
    IF ok
    THEN /\ pc' = "construct"
         /\ events' = Append(events, Ev("check_ok"))
    ELSE /\ pc' = IF NumFails < MaxFails THEN "sleep10" ELSE "returned"
         /\ events' = IF NumFails < MaxFails
                      THEN Append(events, Ev("check_fail"))
                      ELSE events

\* what a readiness check does after a success (line 48) or an exception
\* (lines 49-50); the event log stops growing after MaxFails failures
PollAfter(ok) ==
    IF ok
    THEN /\ pc' = "construct"
         /\ events' = Append(events, Ev("check_ok"))
    ELSE /\ pc' = "sleep10"
         /\ events' = IF NumFails < MaxFails
                      THEN Append(events, Ev("check_fail"))
                      ELSE events

\* lines 46-49: get_query_results answers only for a succeeded execution,
\* and any call may fail transiently
readiness_check(transient) ==
    /\ pc = "check"
    /\ PollAfter(svc = "succeeded" /\ ~transient)
    /\ UNCHANGED <<op, svc, svcPages, results, results_str, last, result_ret,
                   string_ret, nOps, s3_body, issued>>

\* variant: the loop sleeps the initial delay between retries
sleep_backoff_initialDelay ==
    /\ pc = "sleep10"
    /\ pc' = "check"
    /\ events' = IF events[Len(events)].e = "check_fail"
                 THEN Append(events, Sleep(InitialDelay))
                 ELSE events
    /\ UNCHANGED <<op, svc, svcPages, results, results_str, last, result_ret,
                   string_ret, nOps, s3_body, issued>>

\* line 50
sleep_backoff ==
    /\ pc = "sleep10"
    /\ pc' = "check"
    /\ events' = IF events[Len(events)].e = "check_fail"
                 THEN Append(events, Sleep(BackoffDelay))
                 ELSE events
    /\ UNCHANGED <<op, svc, svcPages, results, results_str, last, result_ret,
                   string_ret, nOps, s3_body, issued>>

\* line 51 with AthenaResult.__init__ (lines 63-70)
return_result ==
    /\ pc = "construct"
    /\ pc' = "returned"
    /\ events' = Append(events, Ev("return"))
    /\ results' = None
    /\ results_str' = None
    /\ UNCHANGED <<op, svc, svcPages, last, result_ret, string_ret, nOps,
                   s3_body, issued>>

(* ---------------- AthenaResult ---------------- *)
\* a page request can only fail if it is made: the first one, or one for a
\* page the result set has
Possible(out) ==
    out.kind = "page_fail" =>
        out.at <= (IF Len(svcPages) = 0 THEN 1 ELSE Len(svcPages))

\* lines 74-78 ran to the end of the loop
Completes(out) == out.kind \in {"ok", "no_pages"}

\* the list `results` of lines 76-78 after the loop
Delivered(out) == IF out.kind = "ok" THEN svcPages ELSE <<>>

Repeat(x, n) == [i \in 1..n |-> x]

\* variant: every page is decoded as soon as it arrives
FetchCalls_decodePerPage(out) ==
    IF out.kind = "check_fail" THEN <<"get_query_results_raised">>
    ELSE IF out.kind = "page_fail"
    THEN <<"get_query_results", "paginate">>
         \o Concat(Repeat(<<"page", "decode">>, out.at - 1)) \o <<"page_raised">>
    ELSE <<"get_query_results", "paginate">>
         \o Concat(Repeat(<<"page", "decode">>, Len(Delivered(out))))

\* the remote calls of lines 74-78 up to the first one that raises, and the
\* decoding of lines 83-92, in the order the code runs them
FetchCalls(out) ==
    IF out.kind = "check_fail" THEN <<"get_query_results_raised">>
    ELSE IF out.kind = "page_fail"
    THEN <<"get_query_results", "paginate">>
         \o Repeat("page", out.at - 1) \o <<"page_raised">>
    ELSE <<"get_query_results", "paginate">>
         \o Repeat("page", Len(Delivered(out)))
         \o (IF Len(Delivered(out)) > 0 THEN <<"decode">> ELSE <<>>)

\* line 75 was reached
Paginates(out) == out.kind # "check_fail"

Issue(fetch, out, direct) ==
    [paginate |-> issued.paginate + (IF fetch /\ Paginates(out) THEN 1 ELSE 0),
     completed |-> issued.completed + (IF fetch /\ Completes(out) THEN 1 ELSE 0),
     result |-> issued.result + (IF direct THEN 1 ELSE 0),
     put |-> issued.put]

\* variant: line 95 pops without the guards of lines 80 and 94
result_popUnguarded(header, out) ==
    LET empty == Len(FinalData(Delivered(out))) = 0
    IN  /\ HasResult
        /\ nOps < MaxOps
        /\ Possible(out)
        /\ nOps' = nOps + 1
        /\ issued' = Issue(TRUE, out, TRUE)
        /\ last' = [method |-> "result", header |-> header, delim |-> <<TAB>>,
                    calls |-> FetchCalls(out),
                    raised |-> ~Completes(out) \/ empty, body |-> None]
        /\ IF Completes(out) /\ ~empty
           THEN /\ result_ret' = Some(ResultValue(Delivered(out), header))
                /\ results' = Some(ResultValue(Delivered(out), header))
           ELSE /\ result_ret' = None
                /\ results' = results
        /\ string_ret' = None
        /\ UNCHANGED <<pc, op, svc, svcPages, events, results_str, s3_body>>

\* variant: line 93 caches a copy taken before the header is popped
result_cachesCopy(header, out) ==
    /\ HasResult
    /\ nOps < MaxOps
    /\ Possible(out)
    /\ nOps' = nOps + 1
    /\ issued' = Issue(TRUE, out, TRUE)
    /\ last' = [method |-> "result", header |-> header, delim |-> <<TAB>>,
                calls |-> FetchCalls(out), raised |-> ~Completes(out),
                body |-> None]
    /\ IF Completes(out)
       THEN /\ result_ret' = Some(ResultValue(Delivered(out), header))
            /\ results' = IF Len(Delivered(out)) = 0 THEN results
                          ELSE Some(FinalData(Delivered(out)))
       ELSE /\ result_ret' = None
            /\ results' = results
    /\ string_ret' = None
    /\ UNCHANGED <<pc, op, svc, svcPages, events, results_str, s3_body>>

\* variant: the rows collected so far are cached when a page request raises
result_cachesPartial(header, out) ==
    /\ HasResult
    /\ nOps < MaxOps
    /\ Possible(out)
    /\ nOps' = nOps + 1
    /\ issued' = Issue(TRUE, out, TRUE)
    /\ last' = [method |-> "result", header |-> header, delim |-> <<TAB>>,
                calls |-> FetchCalls(out), raised |-> ~Completes(out),
                body |-> None]
    /\ IF Completes(out)
       THEN /\ result_ret' = Some(ResultValue(Delivered(out), header))
            /\ results' = IF Len(Delivered(out)) = 0 THEN results
                          ELSE Some(ResultValue(Delivered(out), header))
       ELSE /\ result_ret' = None
            /\ results' = IF out.kind = "page_fail"
                          THEN Some(ResultValue(SubSeq(svcPages, 1, out.at - 1),
                                                header))
                          ELSE results
    /\ string_ret' = None
    /\ UNCHANGED <<pc, op, svc, svcPages, events, results_str, s3_body>>

\* variant: an empty answer clears the cache
result_clearsOnEmpty(header, out) ==
    /\ HasResult
    /\ nOps < MaxOps
    /\ Possible(out)
    /\ nOps' = nOps + 1
    /\ issued' = Issue(TRUE, out, TRUE)
    /\ last' = [method |-> "result", header |-> header, delim |-> <<TAB>>,
                calls |-> FetchCalls(out), raised |-> ~Completes(out),
                body |-> None]
    /\ IF Completes(out)
       THEN /\ result_ret' = Some(ResultValue(Delivered(out), header))
            /\ results' = Some(ResultValue(Delivered(out), header))
       ELSE /\ result_ret' = None
            /\ results' = results
    /\ string_ret' = None
    /\ UNCHANGED <<pc, op, svc, svcPages, events, results_str, s3_body>>

\* lines 72-97
result(header, out) ==
    /\ HasResult
    /\ nOps < MaxOps
    /\ Possible(out)
    /\ nOps' = nOps + 1
    /\ issued' = Issue(TRUE, out, TRUE)
    /\ last' = [method |-> "result", header |-> header, delim |-> <<TAB>>,
                calls |-> FetchCalls(out), raised |-> ~Completes(out),
                body |-> None]
    /\ IF Completes(out)
       THEN /\ result_ret' = Some(ResultValue(Delivered(out), header))
            /\ results' = IF Len(Delivered(out)) = 0 THEN results
                          ELSE Some(ResultValue(Delivered(out), header))
       ELSE /\ result_ret' = None
            /\ results' = results
    /\ string_ret' = None
    /\ UNCHANGED <<pc, op, svc, svcPages, events, results_str, s3_body>>

\* variant: to_string() fetches the rows again on every call
to_string_refetches(delim, out) ==
    LET ok == Completes(out)
        rows == ResultValue(Delivered(out), TRUE)
    IN  /\ HasResult
        /\ nOps < MaxOps
        /\ Possible(out)
        /\ nOps' = nOps + 1
        /\ issued' = Issue(TRUE, out, FALSE)
        /\ last' = [method |-> "to_string", header |-> TRUE, delim |-> delim,
                    calls |-> FetchCalls(out), raised |-> ~ok, body |-> None]
        /\ results' = IF ok THEN Some(rows) ELSE results
        /\ results_str' = IF ok THEN Some(AsString(rows, delim)) ELSE results_str
        /\ string_ret' = IF ok THEN Some(AsString(rows, delim)) ELSE None
        /\ result_ret' = None
        /\ UNCHANGED <<pc, op, svc, svcPages, events, s3_body>>

\* lines 99-106; result() of line 102 runs only when results is None
to_string(delim, out) ==
    LET fetch == IsNone(results)
        ok == ~fetch \/ Completes(out)
        rows == IF fetch THEN ResultValue(Delivered(out), TRUE) ELSE Val(results)
    IN  /\ HasResult
        /\ nOps < MaxOps
        /\ IF fetch THEN Possible(out) ELSE out = Ok
        /\ nOps' = nOps + 1
        /\ issued' = Issue(fetch, out, FALSE)
        /\ last' = [method |-> "to_string", header |-> TRUE, delim |-> delim,
                    calls |-> IF fetch THEN FetchCalls(out) ELSE <<>>,
                    raised |-> ~ok, body |-> None]
        /\ results' = IF fetch /\ ok THEN Some(rows) ELSE results
        /\ results_str' = IF ok THEN Some(AsString(rows, delim)) ELSE results_str
        /\ string_ret' = IF ok THEN Some(AsString(rows, delim)) ELSE None
        /\ result_ret' = None
        /\ UNCHANGED <<pc, op, svc, svcPages, events, s3_body>>

\* variant: the string is rebuilt with the default delimiter before every put
to_s3_rebuilds(out, stored) ==
    LET fetch == IsNone(results)
        ok == ~fetch \/ Completes(out)
        rows == IF fetch THEN ResultValue(Delivered(out), TRUE) ELSE Val(results)
        body == AsString(rows, <<TAB>>)
    IN  /\ HasResult
        /\ nOps < MaxOps
        /\ IF fetch THEN Possible(out) ELSE out = Ok
        /\ ok \/ stored
        /\ nOps' = nOps + 1
        /\ issued' = [Issue(fetch, out, FALSE) EXCEPT !.put = @ + (IF ok THEN 1 ELSE 0)]
        /\ last' = [method |-> "to_s3", header |-> TRUE, delim |-> <<TAB>>,
                    calls |-> (IF fetch THEN FetchCalls(out) ELSE <<>>)
                              \o (IF ~ok THEN <<>>
                                  ELSE IF stored THEN <<"put">>
                                  ELSE <<"put_raised">>),
                    raised |-> ~ok \/ ~stored,
                    body |-> IF ok THEN Some(body) ELSE None]
        /\ results' = IF fetch /\ ok THEN Some(rows) ELSE results
        /\ results_str' = IF ok THEN Some(body) ELSE results_str
        /\ s3_body' = IF ok /\ stored THEN Some(body) ELSE s3_body
        /\ result_ret' = None
        /\ string_ret' = None
        /\ UNCHANGED <<pc, op, svc, svcPages, events>>

\* variant: the string is memoized only once the upload has succeeded
to_s3_memoizesAfterPut(out, stored) ==
    LET build == IsNone(results_str)
        fetch == build /\ IsNone(results)
        ok == ~fetch \/ Completes(out)
        rows == IF fetch THEN ResultValue(Delivered(out), TRUE) ELSE Val(results)
        body == IF build THEN AsString(rows, <<TAB>>) ELSE Val(results_str)
    IN  /\ HasResult
        /\ nOps < MaxOps
        /\ IF fetch THEN Possible(out) ELSE out = Ok
        /\ ok \/ stored
        /\ nOps' = nOps + 1
        /\ issued' = [Issue(fetch, out, FALSE) EXCEPT !.put = @ + (IF ok THEN 1 ELSE 0)]
        /\ last' = [method |-> "to_s3", header |-> TRUE, delim |-> <<TAB>>,
                    calls |-> (IF fetch THEN FetchCalls(out) ELSE <<>>)
                              \o (IF ~ok THEN <<>>
                                  ELSE IF stored THEN <<"put">>
                                  ELSE <<"put_raised">>),
                    raised |-> ~ok \/ ~stored,
                    body |-> IF ok THEN Some(body) ELSE None]
        /\ results' = IF fetch /\ ok /\ stored THEN Some(rows) ELSE results
        /\ results_str' = IF build /\ ok /\ stored THEN Some(body)
                          ELSE results_str
        /\ s3_body' = IF ok /\ stored THEN Some(body) ELSE s3_body
        /\ result_ret' = None
        /\ string_ret' = None
        /\ UNCHANGED <<pc, op, svc, svcPages, events>>

\* lines 108-114; to_string() of line 111 runs only when results_str is None
to_s3(out, stored) ==
    LET build == IsNone(results_str)
        fetch == build /\ IsNone(results)
        ok == ~fetch \/ Completes(out)
        rows == IF fetch THEN ResultValue(Delivered(out), TRUE) ELSE Val(results)
        body == IF build THEN AsString(rows, <<TAB>>) ELSE Val(results_str)
    IN  /\ HasResult
        /\ nOps < MaxOps
        /\ IF fetch THEN Possible(out) ELSE out = Ok
        /\ ok \/ stored
        /\ nOps' = nOps + 1
        /\ issued' = [Issue(fetch, out, FALSE) EXCEPT !.put = @ + (IF ok THEN 1 ELSE 0)]
        /\ last' = [method |-> "to_s3", header |-> TRUE, delim |-> <<TAB>>,
                    calls |-> (IF fetch THEN FetchCalls(out) ELSE <<>>)
                              \o (IF ~ok THEN <<>>
                                  ELSE IF stored THEN <<"put">>
                                  ELSE <<"put_raised">>),
                    raised |-> ~ok \/ ~stored,
                    body |-> IF ok THEN Some(body) ELSE None]
        /\ results' = IF fetch /\ ok THEN Some(rows) ELSE results
        /\ results_str' = IF build /\ ok THEN Some(body) ELSE results_str
        /\ s3_body' = IF ok /\ stored THEN Some(body) ELSE s3_body
        /\ result_ret' = None
        /\ string_ret' = None
        /\ UNCHANGED <<pc, op, svc, svcPages, events>>

(* ---------------- specifications ---------------- *)
Next ==
    \/ \E m \in Methods, accepted \in BOOLEAN : start_query_execution(m, accepted)
    \/ sleep_initial
    \/ service_succeeds(PollRowSeqs)
    \/ service_fails
    \/ \E transient \in BOOLEAN : readiness_check(transient)
    \/ sleep_backoff
    \/ return_result
    \/ \E header \in BOOLEAN, out \in Outcomes : result(header, out)
    \/ \E delim \in Delims, out \in Outcomes : to_string(delim, out)
    \/ \E out \in Outcomes, stored \in BOOLEAN : to_s3(out, stored)

Spec == Init /\ [][Next]_vars

\* the interpreter runs line 51 once the loop has been left
FairSpec == Spec /\ WF_vars(return_result)

\* a query that completed at the first readiness check
Returned ==
    /\ pc = "returned"
    /\ op = "query"
    /\ svc = "succeeded"
    /\ events = <<Ev("submit"), Sleep(InitialDelay), Ev("check_ok"), Ev("return")>>
    /\ results = None
    /\ results_str = None
    /\ last = NoCall
    /\ result_ret = None
    /\ string_ret = None
    /\ nOps = 0
    /\ s3_body = None
    /\ issued = NoneIssued

\* result() applied to every answer of the service
ResultInit == Answers(AllRowSeqs, svcPages) /\ Returned

ResultNext == \E header \in BOOLEAN : nOps = 0 /\ result(header, Ok)

ResultSpec == ResultInit /\ [][ResultNext]_vars

\* to_string() applied to every answer of the service
StrInit == StrAnswers(svcPages) /\ Returned

StrNext == \E delim \in Delims : nOps = 0 /\ to_string(delim, Ok)

StrSpec == StrInit /\ [][StrNext]_vars

(* ---------------- properties ---------------- *)

\* the last call was result() and returned normally
ResultReturned == last.method = "result" /\ ~last.raised

\* the last call was to_string() and returned normally
StringReturned == last.method = "to_string" /\ ~last.raised

\* C1: for a response holding at least one row, result(header=True) is one
\* row longer than result(header=False): header=True keeps the header row.
C1_HeaderTrueOneLonger ==
    (ResultReturned /\ Len(Rows(svcPages)) >= 1) =>
        Len(Val(result_ret)) =
            Len(ResultValue(svcPages, FALSE)) + (IF last.header THEN 1 ELSE 0)

\* C2: a second result() call that directly follows a result() call on the
\* same AthenaResult issues no remote call and returns the same content.
C2_ResultMemoized ==
    [][(ResultReturned /\ nOps' = nOps + 1 /\ last'.method = "result")
          => (last'.calls = <<>> /\ ~last'.raised /\ result_ret' = result_ret)]_vars

\* the submission was accepted by the service
Submitted == Len(events) > 0 /\ events[1].e = "submit"

Polling == pc \in {"sleep3", "check", "sleep10"}

CheckSucceeded == \E i \in 1..Len(events) : events[i].e = "check_ok"

\* C3: query() and repair_table() return only after a successful readiness
\* check (the event just before the return); an exception of a readiness
\* check never reaches the caller, and the only step that follows it is the
\* backoff delay and then another readiness check.
C3_ReturnOnlyAfterSuccessfulCheck ==
    /\ [](pc = "returned" =>
            /\ Len(events) >= 2
            /\ events[Len(events)].e = "return"
            /\ events[Len(events) - 1].e = "check_ok"
            /\ svc = "succeeded")
    /\ [](Submitted => pc # "raised")
    /\ [][(pc = "check" /\ pc' # "check") => pc' \in {"construct", "sleep10"}]_vars
    /\ [][(pc = "sleep10" /\ pc' # "sleep10") => pc' = "check"]_vars

\* repair_table() returned after MaxFails swallowed exceptions
C3_Witness == pc = "returned" /\ op = "repair_table" /\ NumFails = MaxFails

\* C4: query() terminates exactly when a readiness check succeeds: it has
\* returned only if one succeeded, it returns once one has succeeded, and as
\* long as none has succeeded it neither returns nor raises but keeps
\* polling, however many checks have failed.
C4_TerminatesIffCheckSucceeds ==
    /\ [](pc = "returned" => CheckSucceeded)
    /\ (CheckSucceeded ~> pc = "returned")
    /\ []((Submitted /\ ~CheckSucceeded) => Polling)

\* the query failed for good and the loop is still polling after MaxFails
\* failed checks
C4_Witness == svc = "failed" /\ NumFails = MaxFails /\ pc = "check"

\* C5: a rejected submission raises before polling: no delay, no readiness
\* check, no AthenaResult, and nothing runs afterwards.
C5_RejectedSubmissionRaisesAtOnce ==
    (Len(events) > 0 /\ events[1].e = "submit_rejected") =>
        /\ pc = "raised"
        /\ events = <<Ev("submit_rejected")>>
        /\ svc = "none"
        /\ ~HasResult
        /\ nOps = 0

C5_Witness == pc = "raised" /\ op = "query"

\* C6: when the paginator delivers zero pages, result() returns the empty
\* sequence, for header=True and header=False alike.
C6_ZeroPagesEmpty ==
    (last.method = "result" /\ Len(svcPages) = 0) =>
        (~last.raised /\ result_ret = Some(<<>>))

C6_Witness == ResultReturned /\ Len(svcPages) = 0 /\ ~last.header

\* number of rows on the pages before page p
RECURSIVE Offset(_, _)
Offset(pages, p) ==
    IF p <= 1 THEN 0 ELSE Offset(pages, p - 1) + Len(pages[p - 1])

\* a service row with every cell replaced by its text, '' where it has none
Decoded(row) ==
    [c \in 1..Len(row) |-> IF row[c] = NoValue THEN <<>> ELSE row[c][1]]

\* C7: result(header=False) is the rows of all pages in page order, then
\* intra-page order, without the very first row: the j-th row of page p,
\* the g-th row overall, is row g-1 of the result, and there is no other row.
C7_RowOrder ==
    (ResultReturned /\ ~last.header) =>
        LET ret == Val(result_ret)
            total == Offset(svcPages, Len(svcPages) + 1)
        IN  /\ Len(ret) = IF total = 0 THEN 0 ELSE total - 1
            /\ \A p \in 1..Len(svcPages) : \A j \in 1..Len(svcPages[p]) :
                  LET g == Offset(svcPages, p) + j
                  IN  g >= 2 => ret[g - 1] = Decoded(svcPages[p][j])

\* two pages of two rows and one row, the three rows all different
C7_Witness ==
    /\ ResultReturned /\ ~last.header
    /\ Len(svcPages) = 2
    /\ Len(svcPages[1]) = 2 /\ Len(svcPages[2]) = 1
    /\ svcPages[1][1] # svcPages[1][2]
    /\ svcPages[1][2] # svcPages[2][1]
    /\ svcPages[1][1] # svcPages[2][1]

\* C8: every row result() returns has as many cells as the service row it
\* came from, each cell in its position: the text of the cell, or the empty
\* string where the cell has no text.
C8_CellsKept ==
    ResultReturned =>
        \A i \in 1..Len(Val(result_ret)) :
            LET row == Val(result_ret)[i]
                src == Rows(svcPages)[i + 1]
            IN  /\ Len(row) = Len(src)
                /\ \A c \in 1..Len(src) :
                      row[c] = IF src[c] = NoValue THEN <<>> ELSE src[c][1]

\* a returned row whose first of two cells had no text
C8_Witness ==
    /\ ResultReturned
    /\ \E i \in 1..Len(Val(result_ret)) :
          LET src == Rows(svcPages)[i + 1]
          IN  Len(src) = 2 /\ src[1] = NoValue /\ src[2] # NoValue

ExactlyOneTrailingNL(s) ==
    /\ Len(s) >= 1
    /\ s[Len(s)] = NL
    /\ (Len(s) = 1 \/ s[Len(s) - 1] # NL)

\* C9: the string to_string() returns ends with exactly one newline, for
\* every row sequence and every delimiter.
C9_ExactlyOneTrailingNewline ==
    StringReturned => ExactlyOneTrailingNL(Val(string_ret))

\* the line of the last cached row
LastLine == Join(last.delim, Val(results)[Len(Val(results))])

\* C9 as amended: the string always ends with a newline; it ends with exactly
\* one newline exactly when there is no row, or the last row's line is
\* non-empty and does not end with a newline, or it is empty and the only row.
C9_TrailingNewline ==
    StringReturned =>
        LET str == Val(string_ret)
            n == Len(Val(results))
        IN  /\ Len(str) >= 1
            /\ str[Len(str)] = NL
            /\ ExactlyOneTrailingNL(str) <=>
                  \/ n = 0
                  \/ n = 1 /\ Len(LastLine) = 0
                  \/ n >= 1 /\ Len(LastLine) > 0 /\ LastLine[Len(LastLine)] # NL

\* two rows, the second one ending with text: exactly one trailing newline
C9_Witness ==
    /\ StringReturned
    /\ Len(Val(results)) = 2
    /\ Len(LastLine) > 0
    /\ ExactlyOneTrailingNL(Val(string_ret))

DropLast(l) == SubSeq(l, 1, Len(l) - 1)

\* split on newline, drop the final segment, split every line on tab
RoundTrip(str) ==
    [i \in 1..Len(DropLast(Split(str, NL))) |->
        Split(DropLast(Split(str, NL))[i], TAB)]

\* C10: splitting to_string('\t') on newline, dropping the final segment and
\* splitting every line on tab gives back the rows that were joined, for
\* every row sequence.
C10_RoundTrip ==
    (StringReturned /\ last.delim = <<TAB>>) =>
        RoundTrip(Val(string_ret)) = Val(results)

\* no tab and no newline in any cell, no row without cells, at least one row
Splittable(rows) ==
    /\ Len(rows) >= 1
    /\ \A i \in 1..Len(rows) :
          /\ Len(rows[i]) >= 1
          /\ \A c \in 1..Len(rows[i]) : \A k \in 1..Len(rows[i][c]) :
                rows[i][c][k] \notin {TAB, NL}

\* C10 as amended: the round trip gives back the rows exactly when there is
\* at least one row, every row has at least one cell, and no cell holds a
\* tab or a newline.
C10_RoundTripOfSplittableRows ==
    (StringReturned /\ last.delim = <<TAB>>) =>
        (RoundTrip(Val(string_ret)) = Val(results) <=> Splittable(Val(results)))

\* two rows of two cells, one of them empty, that round-trip
C10_Witness ==
    /\ StringReturned /\ last.delim = <<TAB>>
    /\ Len(Val(results)) = 2
    /\ Len(Val(results)[1]) = 2
    /\ Val(results)[2][1] = <<>>
    /\ Splittable(Val(results))
    /\ RoundTrip(Val(string_ret)) = Val(results)

\* the rows joined by the delimiter, one newline after each; '\n' for no row
Rendered(rows, delim) ==
    IF Len(rows) = 0 THEN <<NL>>
    ELSE Concat([i \in 1..Len(rows) |-> Join(delim, rows[i]) \o <<NL>>])

Count(calls, names) == Cardinality({i \in 1..Len(calls) : calls[i] \in names})

Puts(calls) == Count(calls, {"put", "put_raised"})

FetchRaised(calls) == Count(calls, {"get_query_results_raised", "page_raised"}) > 0

Fetched(calls) ==
    Count(calls, {"get_query_results", "get_query_results_raised"}) > 0

\* the step is a call of the method
Calls(method) == nOps' = nOps + 1 /\ last'.method = method

\* C11: to_s3() puts one object, never more, and its body is the memoized
\* string: with results_str absent the string of to_string() with the tab
\* delimiter (rows fetched only if results is absent too), which it memoizes;
\* with results_str present that string as it is, with no fetch and nothing
\* recomputed, so after a to_string() call the body is the string that call
\* returned, whatever its delimiter. Only a fetch that raises ends the call
\* before the put.
C11_ToS3PutsMemoizedString ==
    [][Calls("to_s3") =>
          /\ Puts(last'.calls) = (IF FetchRaised(last'.calls) THEN 0 ELSE 1)
          /\ Puts(last'.calls) = 1 =>
                /\ last'.body = results_str'
                /\ Count(last'.calls, {"put"}) = 1 => s3_body' = last'.body
                /\ IF IsNone(results_str)
                   THEN /\ Fetched(last'.calls) <=> IsNone(results)
                        /\ ~IsNone(results) => results' = results
                        /\ last'.body = Some(Rendered(Val(results'), <<TAB>>))
                   ELSE /\ Len(last'.calls) = 1
                        /\ last'.body = results_str
                        /\ results' = results
                        /\ (last.method = "to_string" /\ ~last.raised)
                               => last'.body = string_ret]_vars

\* the object holds a string that to_string() built with the newline
\* delimiter, different from the tab-delimited one
C11_Witness ==
    /\ last.method = "to_s3" /\ last.calls = <<"put">>
    /\ s3_body = results_str
    /\ s3_body = Some(Rendered(Val(results), <<NL>>))
    /\ s3_body # Some(Rendered(Val(results), <<TAB>>))

\* C12: over any sequence of to_string() and to_s3() calls, with no direct
\* result() call, at most one paginated fetch sequence is issued, and after
\* every to_string() call results_str is the string that call returned.
C12_AtMostOneFetch ==
    /\ issued.result = 0 => issued.paginate <= 1
    /\ StringReturned => (~IsNone(string_ret) /\ results_str = string_ret)

\* C12 as amended: over such a sequence at most one paginated fetch sequence
\* runs to completion. A call fetches only while no rows are cached; a fetch
\* that completed, with zero pages too, caches its rows, and one that raised
\* caches nothing, so that the next call fetches again. After every
\* to_string() call that returns, results_str is the string it returned.
C12_AtMostOneCompletedFetch ==
    /\ [](issued.result = 0 => issued.completed <= 1)
    /\ [](StringReturned => (~IsNone(string_ret) /\ results_str = string_ret))
    /\ [][(issued.result = 0 /\ (Calls("to_string") \/ Calls("to_s3"))) =>
             /\ Fetched(last'.calls) => IsNone(results)
             /\ issued'.completed > issued.completed => ~IsNone(results')
             /\ FetchRaised(last'.calls) =>
                    (results' = results /\ results_str' = results_str)]_vars

\* a second call after a to_string()/to_s3() whose fetch delivered zero pages
\* of a result set that has rows: still one fetch
C12_Witness ==
    /\ StringReturned
    /\ nOps = 2
    /\ issued.paginate = 1 /\ issued.completed = 1 /\ issued.result = 0
    /\ last.calls = <<>>
    /\ results = Some(<<>>)
    /\ Len(Rows(svcPages)) >= 2

\* C13: when the existence check or a page request raises inside result(),
\* the call raises to the caller with no further remote call (nothing is
\* caught or retried: the raising call is the last one, and no call was made
\* twice beyond the page requests), and results and results_str keep the
\* values they had; no partially fetched rows are cached.
C13_ResultFailurePropagates ==
    [][(Calls("result") /\ FetchRaised(last'.calls)) =>
          /\ last'.raised
          /\ result_ret' = None
          /\ results' = results
          /\ results_str' = results_str
          /\ Count(last'.calls, {"get_query_results_raised", "page_raised"}) = 1
          /\ last'.calls[Len(last'.calls)]
                 \in {"get_query_results_raised", "page_raised"}
          /\ Count(last'.calls, {"get_query_results",
                                 "get_query_results_raised"}) = 1
          /\ Count(last'.calls, {"paginate"}) <= 1
          /\ Count(last'.calls, {"decode"}) = 0]_vars

\* the request for the second page raised after the first page had arrived
C13_Witness ==
    /\ last.method = "result" /\ last.raised
    /\ last.calls = <<"get_query_results", "paginate", "page", "page_raised">>
    /\ Len(svcPages[1]) >= 2
    /\ results = None

\* C14: every result() call that reaches the service (every one does, and so
\* does the result() inside to_string() and to_s3()) makes exactly one
\* existence check, as its first call; pagination starts right after it and
\* only if it succeeded; and rows are decoded only after all pages of the
\* result set have arrived.
C14_CheckThenPagesThenDecode ==
    /\ last.method = "result" => Fetched(last.calls)
    /\ Fetched(last.calls) =>
          /\ last.calls[1] \in {"get_query_results", "get_query_results_raised"}
          /\ Count(last.calls, {"get_query_results",
                                "get_query_results_raised"}) = 1
          /\ last.calls[1] = "get_query_results_raised" =>
                Count(last.calls, {"paginate", "page", "page_raised"}) = 0
          /\ last.calls[1] = "get_query_results" =>
                (last.calls[2] = "paginate" /\ Count(last.calls, {"paginate"}) = 1)
          /\ \A i \in 1..Len(last.calls) : \A j \in 1..Len(last.calls) :
                (last.calls[i] = "decode"
                    /\ last.calls[j] \in {"paginate", "page", "page_raised"})
                => j < i
          /\ Count(last.calls, {"decode"}) > 0 =>
                (Count(last.calls, {"page"}) = Len(svcPages)
                    /\ Count(last.calls, {"page_raised"}) = 0)
          /\ (ResultReturned /\ Len(Val(result_ret)) > 0) =>
                Count(last.calls, {"decode"}) = 1

\* a result() call that got two pages
C14_Witness ==
    /\ ResultReturned
    /\ last.calls = <<"get_query_results", "paginate", "page", "page", "decode">>
    /\ Len(Val(result_ret)) > 0

\* submit, the initial delay, then k times a failed check and the backoff
Cadence(k) ==
    <<Ev("submit"), Sleep(InitialDelay)>>
    \o Concat(Repeat(<<Ev("check_fail"), Sleep(BackoffDelay)>>, k))

\* C15: the events of query() are submit, one 3 s delay, then for each failed
\* readiness check that check and one 10 s delay, then the successful check
\* and the return with no delay in between; every position of the loop sees
\* the matching prefix of that trace.
C15_PollingCadence ==
    /\ pc = "sleep3" => events = <<Ev("submit")>>
    /\ pc = "check" => events = Cadence(NumFails)
    /\ pc = "sleep10" =>
          \/ NumFails >= 1
             /\ events = Append(Cadence(NumFails - 1), Ev("check_fail"))
          \/ events = Cadence(MaxFails)
    /\ pc = "construct" => events = Append(Cadence(NumFails), Ev("check_ok"))
    /\ pc = "returned" =>
          events = Cadence(NumFails) \o <<Ev("check_ok"), Ev("return")>>
    /\ InitialDelay = 3 /\ BackoffDelay = 10

\* a run with two failed checks has returned
C15_Witness == pc = "returned" /\ NumFails = 2

\* the newline-terminated lines of a string that ends with a newline
LinesOf(str) == DropLast(Split(str, NL))

\* the service rows 2..n, decoded, in the service's order
BodyRows ==
    [i \in 1..(Len(Rows(svcPages)) - 1) |-> Decoded(Rows(svcPages)[i + 1])]

BodyLines == [i \in 1..Len(BodyRows) |-> Join(<<TAB>>, BodyRows[i])]

\* the first call on the AthenaResult was the method, and its fetch got the
\* pages of a result set of at least one row
FirstOnFresh(method) ==
    /\ nOps = 1
    /\ last.method = method
    /\ Count(last.calls, {"decode"}) = 1
    /\ Len(Rows(svcPages)) >= 1

\* C16: on a fresh AthenaResult whose result set has n >= 1 rows, to_string()
\* returns exactly the n-1 lines of the service rows 2..n, and to_s3() uploads
\* that same body: the header row is not in it.
C16_HeaderlessLines ==
    /\ (FirstOnFresh("to_string") /\ last.delim = <<TAB>>) =>
          LinesOf(Val(string_ret)) = BodyLines
    /\ FirstOnFresh("to_s3") => LinesOf(Val(last.body)) = BodyLines

\* C16 as amended: the string is the service rows 2..n in order, each joined
\* by tab and followed by a newline, which are n-1 lines when n >= 2; for
\* n = 1 it is the single newline, one empty line and not zero lines. to_s3()
\* uploads that same string. The header row is in neither.
C16_HeaderlessString ==
    /\ (FirstOnFresh("to_string") /\ last.delim = <<TAB>>) =>
          /\ Val(string_ret) = Rendered(BodyRows, <<TAB>>)
          /\ IF Len(Rows(svcPages)) >= 2
             THEN LinesOf(Val(string_ret)) = BodyLines
             ELSE Val(string_ret) = <<NL>>
    /\ FirstOnFresh("to_s3") =>
          /\ Val(last.body) = Rendered(BodyRows, <<TAB>>)
          /\ IF Len(Rows(svcPages)) >= 2
             THEN LinesOf(Val(last.body)) = BodyLines
             ELSE Val(last.body) = <<NL>>
          /\ ~last.raised => s3_body = last.body

\* the header on the first page and a row on the second: the row alone is
\* uploaded
C16_Witness ==
    /\ FirstOnFresh("to_s3") /\ ~last.raised
    /\ Len(svcPages) = 2
    /\ Len(Rows(svcPages)) = 2
    /\ Rows(svcPages)[1] # Rows(svcPages)[2]
    /\ LinesOf(Val(s3_body)) = <<Join(<<TAB>>, Decoded(svcPages[2][1]))>>

\* result() delivered at least one page in the step just taken
PagesDelivered == Count(last.calls, {"decode"}) = 1

\* C17: after a result() that got at least one page, the results field is the
\* value it returned; a to_string() that follows issues no remote call and
\* renders exactly those rows.
C17_ResultsIsReturnedValue ==
    [][ /\ (Calls("result") /\ PagesDelivered') =>
              /\ ~last'.raised
              /\ results' = result_ret'
              /\ ~IsNone(results')
        /\ (last.method = "result" /\ PagesDelivered /\ Calls("to_string")) =>
              /\ last'.calls = <<>>
              /\ ~last'.raised
              /\ issued' = issued
              /\ string_ret' = Some(Rendered(Val(result_ret), last'.delim))
              /\ results' = results
      ]_vars

\* result() returned the row after the header and to_string() then rendered it
C17_Witness ==
    /\ nOps = 2
    /\ last.method = "to_string"
    /\ last.calls = <<>>
    /\ issued.result = 1
    /\ ~IsNone(results)
    /\ Len(Val(results)) = 1
    /\ string_ret = Some(Rendered(Val(results), last.delim))

\* the result() call of this step paginated to the end and got no page
ZeroPages ==
    /\ Calls("result")
    /\ last'.calls = <<"get_query_results", "paginate">>

\* C18: a result() whose pagination yields zero pages returns the empty list
\* and leaves results and results_str as they were: absent on a fresh object,
\* the old rows and string on one that had them.
C18_ZeroPagesKeepsCache ==
    [][ ZeroPages =>
          /\ ~last'.raised
          /\ result_ret' = Some(<<>>)
          /\ results' = results
          /\ results_str' = results_str
      ]_vars

\* rows and string were cached by to_string(), then result() got zero pages
C18_Witness ==
    /\ nOps = 2
    /\ last.method = "result"
    /\ last.calls = <<"get_query_results", "paginate">>
    /\ result_ret = Some(<<>>)
    /\ ~IsNone(results)
    /\ Len(Val(results)) = 1
    /\ results_str = Some(Rendered(Val(results), <<TAB>>))

\* result() got zero pages on a fresh object
C18_FreshWitness ==
    /\ nOps = 1
    /\ last.method = "result"
    /\ last.calls = <<"get_query_results", "paginate">>
    /\ result_ret = Some(<<>>)
    /\ IsNone(results)
    /\ IsNone(results_str)

\* the to_s3() call of this step reached the put and the put raised
PutRaised == Calls("to_s3") /\ Count(last'.calls, {"put_raised"}) = 1

\* C19: when the upload of to_s3() fails the exception propagates and the put
\* is not retried; the rows and the string stay memoized, so a repeated
\* to_s3() fetches nothing and attempts the put with the identical body.
C19_UploadFailureKeepsMemo ==
    [][ /\ PutRaised =>
              /\ last'.raised
              /\ Puts(last'.calls) = 1
              /\ ~IsNone(results')
              /\ ~IsNone(results_str')
              /\ results_str' = last'.body
              /\ s3_body' = s3_body
        /\ (last.method = "to_s3" /\ Count(last.calls, {"put_raised"}) = 1
            /\ Calls("to_s3")) =>
              /\ last'.calls \in {<<"put">>, <<"put_raised">>}
              /\ issued'.paginate = issued.paginate
              /\ last'.body = last.body
              /\ results' = results
              /\ results_str' = results_str
      ]_vars

\* two to_s3() calls whose puts both raised: one fetch, the same one-row body
\* offered twice, nothing stored
C19_Witness ==
    /\ nOps = 2
    /\ issued.put = 2
    /\ issued.paginate = 1
    /\ last.method = "to_s3"
    /\ last.calls = <<"put_raised">>
    /\ last.raised
    /\ IsNone(s3_body)
    /\ ~IsNone(results)
    /\ Len(Val(results)) = 1
    /\ last.body = Some(Rendered(Val(results), <<TAB>>))
    /\ results_str = last.body

====
